---- MODULE Spec2Model ----
(***************************************************************************)
(* Model of the ingestion-and-retrieval pipeline of rag-search-api:        *)
(*   core/documents/services.py  DocumentService.upload_document           *)
(*   core/vector/service.py      VectorService, get_vector_service         *)
(*   core/rag/services.py        RAGService.search_and_generate            *)
(*   core/utils.py               validate_document_file                    *)
(*   dependencies.py             get_db                                    *)
(*                                                                         *)
(* Conventions.                                                            *)
(*  - A Python Optional value is a sequence of length <= 1: None is <<>>   *)
(*    and a present value v is <<v>>.                                      *)
(*  - A str is a sequence of code points, a bytes object a sequence of     *)
(*    byte values.                                                         *)
(*  - A float distance is a fixed-point integer in units of 1/One.         *)
(*  - The collaborators (file system, relational store, vector engine,     *)
(*    language model) may fail at every call; each failure is a            *)
(*    nondeterministic branch of the action that makes the call.           *)
(***************************************************************************)
EXTENDS Integers, Sequences, FiniteSets, TLC

\* ------------------------------------------------------------------ bounds
\* Number of upload requests the model follows.
MaxUploads == 2

\* Number of threads that call get_vector_service concurrently.
NThreads == 3

\* --------------------------------------------------------- program constants
CHUNK_SIZE == 500
RAG_N_RESULTS == 5
PreviewLen == 100
\* Fixed-point representation of the literal 1 in `1 - distance`.
One == 10

\* ---------------------------------------------------------- Optional values
NONE == <<>>

Some(v) == <<v>>

\* Python truthiness of an Optional[int] / Optional[float]: None and 0 are falsy.
Truthy(opt) == opt # NONE /\ opt[1] # 0

\* ------------------------------------------------------------------ strings
\* Code points that str.strip() removes (space, newline).
Whitespace == {32, 10}

\* `s.strip()` is truthy iff some code point of s is not whitespace.
StripNonEmpty(s) == \E i \in 1..Len(s) : s[i] \notin Whitespace

\* s[:n]
Prefix(s, n) == SubSeq(s, 1, IF Len(s) < n THEN Len(s) ELSE n)

RECURSIVE Concat(_)
\* "".join(parts)
Concat(parts) ==
  IF parts = <<>> THEN <<>> ELSE Head(parts) \o Concat(Tail(parts))

RECURSIVE JoinWith(_, _)
\* sep.join(parts)
JoinWith(sep, parts) ==
  IF parts = <<>> THEN <<>>
  ELSE IF Len(parts) = 1 THEN parts[1]
  ELSE parts[1] \o sep \o JoinWith(sep, Tail(parts))

\* bytes -> str with encoding="utf-8": a byte >= 128 that starts no valid
\* sequence (0xFF here) raises UnicodeDecodeError; ASCII decodes to itself.
Utf8Fails(bytes) == \E i \in 1..Len(bytes) : bytes[i] >= 128

\* bytes -> str with encoding="latin-1": every byte is its own code point.
DecodeLatin1(bytes) == [i \in 1..Len(bytes) |-> bytes[i]]

DecodeUtf8(bytes) == [i \in 1..Len(bytes) |-> bytes[i]]

\* ------------------------------------------------------------------- inputs
\* A payload of L bytes, ASCII letters with a space every 7th byte.
MakeBytes(L) == [i \in 1..L |-> IF i % 7 = 0 THEN 32 ELSE 97 + (i % 3)]

\* The result of pypdf on the payload: <<>> when PdfReader cannot read the
\* file, else <<pages>>; a page is <<text>> or <<>> when extract_text raises.
NotAPdf == <<>>

PdfOf(pages) == <<pages>>

\* Uploaded files: filename = stem + ext (os.path.splitext), raw bytes, and
\* what pypdf makes of them.
UploadFiles ==
  { [stem |-> "a", ext |-> ".txt", bytes |-> <<>>, pdf |-> NotAPdf],
    [stem |-> "a", ext |-> ".txt", bytes |-> <<97, 32, 98>>, pdf |-> NotAPdf],
    [stem |-> "b", ext |-> ".txt", bytes |-> MakeBytes(1200), pdf |-> NotAPdf],
    [stem |-> "b", ext |-> ".txt", bytes |-> MakeBytes(500) \o <<255>>, pdf |-> NotAPdf],
    [stem |-> "c", ext |-> ".pdf", bytes |-> <<37, 80>>,
       pdf |-> PdfOf(<< <<<<97, 98>>>>, <<<<>>>>, <<>>, <<<<32, 99>>>> >>)],
    [stem |-> "c", ext |-> ".pdf", bytes |-> <<37, 81>>,
       pdf |-> PdfOf(<< <<<<32, 10>>>>, <<>>, <<<<>>>> >>)],
    [stem |-> "c", ext |-> ".pdf", bytes |-> <<37>>, pdf |-> NotAPdf],
    [stem |-> "d", ext |-> ".TXT", bytes |-> <<97>>, pdf |-> NotAPdf],
    [stem |-> "e", ext |-> ".doc", bytes |-> <<97>>, pdf |-> NotAPdf] }

Filenames == { [stem |-> f.stem, ext |-> f.ext] : f \in UploadFiles }

FilenameOf(f) == [stem |-> f.stem, ext |-> f.ext]

\* Values of settings.CHROMA_COLLECTION_NAME the deployment may configure.
CollectionNames == {"documents", "kb"}

\* Distances the engine may report, in units of 1/One (0.0, 0.4, 1.2).
Distances == <<0, 4, 12>>

\* Query texts of the requests ("p", "q", "r", "s").
Queries == { <<c>> : c \in 112..115 }

\* The engine's distance between the embedding of a query and that of a
\* stored chunk: an opaque, deterministic function of the two. The queries
\* rank the chunks in different orders, with and without ties.
EngineDistance(query, entry) ==
  LET q == query[1] - 112
      k == entry.metadata.chunk_id
  IN Distances[((IF q < 2 THEN q + k ELSE q + 2 * k + (k \div 3)) % 3) + 1]

\* document_id values of a RAGQueryRequest (Optional[int]).
DocumentIdFilters == {NONE} \cup { Some(d) : d \in 0..MaxUploads }

\* --------------------------------------------------------------- exceptions
HTTPException(status, detail) ==
  [type |-> "HTTPException", status_code |-> status, detail |-> detail]

\* An exception of a collaborator: OSError, ValueError, SQLAlchemyError, or
\* any other Exception subclass (type "Exception").
RawException(type, detail) ==
  [type |-> type, status_code |-> 0, detail |-> detail]

\* DocumentService._handle_exception: always raises; the exception raised.
HandleException(e, message) ==
  IF e.type = "HTTPException" THEN e ELSE HTTPException(500, message)

\* DocumentService._handle_database_exception: rolls the session back, then
\* raises; the exception raised.
HandleDatabaseException(e, message) ==
  IF e.type = "HTTPException" THEN e ELSE HTTPException(500, message)

\* ---------------------------------------------------------------- validator
\* str.lower() on the extensions that occur.
Lower(ext) ==
  CASE ext = ".TXT" -> ".txt"
    [] ext = ".PDF" -> ".pdf"
    [] OTHER -> ext

\* validate_document_file: the exception it raises, or NONE when the file is
\* returned.
ValidateDocumentFile(f) ==
  IF Lower(f.ext) \notin {".txt", ".pdf"}
  THEN Some(HTTPException(400, "Solo se permiten archivos .txt y .pdf"))
  ELSE NONE

\* ------------------------------------------------------------------ chunker
\* text[a:b] for 0 <= a <= b
Slice(text, a, b) == SubSeq(text, a + 1, IF b > Len(text) THEN Len(text) ELSE b)

RECURSIVE ChunksFrom(_, _)
\* The chunk texts of the loop `for i in range(i0, len(text), CHUNK_SIZE)`.
ChunksFrom(text, i) ==
  IF i >= Len(text) THEN <<>>
  ELSE <<Slice(text, i, i + CHUNK_SIZE)>> \o ChunksFrom(text, i + CHUNK_SIZE)

\* A chunker that drops the last character of every full window.
ChunkTextShort(text) ==
  [k \in 1..Len(ChunksFrom(text, 0)) |->
     Slice(text, (k - 1) * CHUNK_SIZE, k * CHUNK_SIZE - 1)]

\* The chunk texts _create_document_with_chunks cuts from `text`, in order.
ChunkText(text) == ChunksFrom(text, 0)

\* --------------------------------------------------------------- extraction
\* The .txt branch of _extract_text_from_file: UTF-8, else Latin-1.
ExtractTxt(bytes) ==
  IF Utf8Fails(bytes) THEN DecodeLatin1(bytes) ELSE DecodeUtf8(bytes)

RECURSIVE TextParts(_)
\* The pages kept by the loop of _extract_text_from_pdf: a page whose
\* extract_text raised (<<>>) or whose text strips to nothing is skipped.
TextParts(pages) ==
  IF pages = <<>> THEN <<>>
  ELSE (IF Head(pages) # <<>> /\ StripNonEmpty(Head(pages)[1])
        THEN <<Head(pages)[1]>> ELSE <<>>) \o TextParts(Tail(pages))

\* _extract_text_from_pdf: [exc, text].
ExtractTextFromPdf(pdf) ==
  IF pdf = NotAPdf
  THEN [exc |-> Some(HTTPException(500, "Error extracting text from PDF")),
        text |-> <<>>]
  ELSE LET text_parts == TextParts(pdf[1])
           full_text == JoinWith(<<10, 10>>, text_parts)
       IN IF text_parts = <<>>
          THEN [exc |-> Some(HTTPException(400, "PDF file appears to be empty or contains no extractable text")),
                text |-> <<>>]
          ELSE IF ~StripNonEmpty(full_text)
          THEN [exc |-> Some(HTTPException(400, "PDF file contains no extractable text")),
                text |-> <<>>]
          ELSE [exc |-> NONE, text |-> full_text]

\* _extract_text_from_file on a readable file: [exc, text].
ExtractTextFromFile(ext, content) ==
  IF ext = ".txt" THEN [exc |-> NONE, text |-> ExtractTxt(content.bytes)]
  ELSE IF ext = ".pdf" THEN ExtractTextFromPdf(content.pdf)
  ELSE [exc |-> Some(RawException("ValueError", "Unsupported file type")),
        text |-> <<>>]

\* ------------------------------------------------------------ vector service
\* `except Exception as e: raise HTTPException(status_code=500, detail=...)`
\* of add_chunks, search_similar_chunks, delete_document_chunks,
\* get_collection_info and _initialize_clients.
WrapEngineError(e, detail) == HTTPException(500, detail)

\* f"chunk_{chunk['id']}"
ChunkKey(chunk_id) == <<"chunk_", chunk_id>>

\* An entry keyed by the document id instead of the chunk id.
EntryForByDocument(chunk, document_id) ==
  [id |-> ChunkKey(document_id),
   document |-> chunk.text,
   metadata |-> [chunk_id |-> chunk.id, document_id |-> document_id,
                 text |-> Prefix(chunk.text, PreviewLen)]]

\* The id, document and metadata add_chunks prepares for one chunk.
EntryFor(chunk, document_id) ==
  [id |-> ChunkKey(chunk.id),
   document |-> chunk.text,
   metadata |-> [chunk_id |-> chunk.id, document_id |-> document_id,
                 text |-> Prefix(chunk.text, PreviewLen)]]

\* collection.add: stores the entries whose id the collection does not hold.
CollectionAdd(coll, entries) ==
  coll \cup { entries[i] : i \in { j \in 1..Len(entries) :
                                     \A o \in coll : o.id # entries[j].id } }

\* VectorService.add_chunks on collection `coll`; engineOk = collection.add
\* returns. [exc, coll].
AddChunks(coll, chunks, document_id, engineOk) ==
  IF chunks = <<>> THEN [exc |-> NONE, coll |-> coll]
  ELSE IF ~engineOk
  THEN [exc |-> Some(WrapEngineError(RawException("Exception", "engine"),
                                     "Error adding chunks to ChromaDB")),
        coll |-> coll]
  ELSE [exc |-> NONE,
        coll |-> CollectionAdd(coll,
                   [i \in 1..Len(chunks) |-> EntryFor(chunks[i], document_id)])]

\* The entries a `where` equality filter on document_id lets through.
Matching(coll, where) ==
  { e \in coll : where = NONE \/ e.metadata.document_id = where[1] }

RECURSIVE SortByDistance(_, _)
\* The matches ranked by non-decreasing distance (ties by chunk id).
SortByDistance(S, dist) ==
  IF S = {} THEN <<>>
  ELSE LET m == CHOOSE e \in S : \A o \in S :
                  \/ dist[e] < dist[o]
                  \/ dist[e] = dist[o] /\ e.metadata.chunk_id <= o.metadata.chunk_id
       IN <<m>> \o SortByDistance(S \ {m}, dist)

\* collection.query(query_texts=[query], n_results, where): the n_results
\* nearest matches; `distances` is absent when the engine reports none.
CollectionQuery(coll, where, n_results, dist, withDistances) ==
  LET ranked == SortByDistance(Matching(coll, where), dist)
      top == SubSeq(ranked, 1, IF Len(ranked) < n_results THEN Len(ranked) ELSE n_results)
  IN [ids |-> [i \in 1..Len(top) |-> top[i].id],
      metadatas |-> [i \in 1..Len(top) |-> top[i].metadata],
      documents |-> [i \in 1..Len(top) |-> top[i].document],
      distances |-> IF withDistances
                    THEN Some([i \in 1..Len(top) |-> dist[top[i]]])
                    ELSE NONE]

\* `results['distances'][0][i] if 'distances' in results else None`
DistanceAt(results, i) ==
  IF results.distances # NONE THEN Some(results.distances[1][i]) ELSE NONE

\* A score that is the distance itself.
ScoreOfDistance(distance) ==
  IF Truthy(distance) THEN Some(distance[1]) ELSE NONE

\* `1 - distance if distance else None`
ScoreOf(distance) ==
  IF Truthy(distance) THEN Some(One - distance[1]) ELSE NONE

\* The list search_similar_chunks builds from the engine's results.
FormatResults(results) ==
  [i \in 1..Len(results.ids) |->
     [chunk_id |-> results.metadatas[i].chunk_id,
      document_id |-> results.metadatas[i].document_id,
      text |-> results.documents[i],
      score |-> ScoreOf(DistanceAt(results, i)),
      metadata |-> results.metadatas[i]]]

\* ---------------------------------------------------------------------- RAG
\* A formatted str is a sequence of tokens: a literal, an int rendered by
\* an f-string, or an embedded str.
Lit(s) == [kind |-> "lit", lit |-> s, num |-> 0, text |-> <<>>]

Num(n) == [kind |-> "int", lit |-> "", num |-> n, text |-> <<>>]

Text(t) == [kind |-> "text", lit |-> "", num |-> 0, text |-> t]

NoRelevantInformation == << Lit("No relevant information found.") >>

\* f"[Chunk {i} - Document {document_id}]:\n{text}\n"
ContextPart(i, chunk) ==
  << Lit("[Chunk "), Num(i), Lit(" - Document "), Num(chunk.document_id),
     Lit("]:\n"), Text(chunk.text), Lit("\n") >>

\* A context builder with no sentence for the empty case.
BuildContextNoSentinel(chunks) ==
  JoinWith(<< Lit("\n") >>, [i \in 1..Len(chunks) |-> ContextPart(i, chunks[i])])

\* RAGService._build_context
BuildContext(chunks) ==
  IF chunks = <<>> THEN NoRelevantInformation
  ELSE JoinWith(<< Lit("\n") >>, [i \in 1..Len(chunks) |-> ContextPart(i, chunks[i])])

\* RAGService._build_prompt
BuildPrompt(query, context) ==
  << Lit("Based on the following information, answer the user's question.\nIf the information is not sufficient or not related, clearly indicate so.\n\nAvailable information:\n") >>
  \o context
  \o << Lit("\n\nUser question: "), Text(query), Lit("\n\nAnswer:") >>

\* `filter_metadata` of search_and_generate: set only when request.document_id
\* is truthy.
FilterMetadata(document_id) ==
  IF Truthy(document_id) THEN Some(document_id[1]) ELSE NONE

\* `where=filter_metadata if filter_metadata else None`
WhereOf(filter_metadata) == filter_metadata

\* The RAGQueryResponse search_and_generate returns.
RAGQueryResponse(query, similar_chunks, context, response) ==
  [query |-> query,
   chunks_found |-> Len(similar_chunks),
   chunks |-> [i \in 1..Len(similar_chunks) |->
                 [chunk_id |-> similar_chunks[i].chunk_id,
                  document_id |-> similar_chunks[i].document_id,
                  text |-> similar_chunks[i].text,
                  score |-> similar_chunks[i].score,
                  metadata |-> similar_chunks[i].metadata]],
   response |-> response,
   context_used |-> IF Len(similar_chunks) > 0 THEN Some(context) ELSE NONE]

\* -------------------------------------------------------------------- state
VARIABLES
  settings,      \* get_settings(): the configuration, fixed for the process
  disk,          \* UPLOAD_DIR: filename -> Optional file content
  dbDocs,        \* committed rows of table documents, in id order
  dbChunks,      \* committed rows of table chunks, in id order
  docSeq,        \* next value of the documents id sequence
  chunkSeq,      \* next value of the chunks id sequence
  session,       \* the request's SQLAlchemy session (get_db)
  up,            \* the upload request in flight: position and locals
  chroma,        \* the engine's collections: name -> set of entries
  vsInstance,    \* _vector_service_instance
  nUploads,      \* upload requests received so far
  last,          \* outcome of the operation that ended in the last step
  stored,        \* filename -> Optional content of its last successful upload
  callers        \* thread -> its position inside get_vector_service

vars == << settings, disk, dbDocs, dbChunks, docSeq, chunkSeq, session, up,
           chroma, vsInstance, nUploads, last, stored, callers >>

\* No upload in flight.
IdleUpload ==
  [pc |-> "idle", file |-> NONE, file_location |-> NONE, text |-> <<>>,
   document |-> NONE, chunks |-> <<>>]

\* No session yet: sessions are numbered from 1 in the order sessionLocal()
\* creates them.
ClosedSession == [open |-> FALSE, in_transaction |-> FALSE, id |-> 0]

\* get_db: `db = sessionLocal()` makes a new Session object for the request.
OpenSession(s) == [open |-> TRUE, in_transaction |-> FALSE, id |-> s.id + 1]

\* A get_db that does not close the session.
CloseSessionLeak(s) == s

\* get_db: `finally: db.close()`.
CloseSession(s) == [s EXCEPT !.open = FALSE, !.in_transaction = FALSE]

\* Threads that call get_vector_service.
Threads == 1..NThreads

\* A thread that is not inside get_vector_service and has not called it.
IdleCaller ==
  [pc |-> "idle", collection_name |-> "", made |-> NONE, result |-> NONE,
   exc |-> NONE]

\* The last step completed no operation.
NoOutcome == [op |-> "step"]

\* A file as open(file_location, "wb") leaves it before the first write.
TruncatedFile == [bytes |-> <<>>, pdf |-> NotAPdf]

Init ==
  /\ settings \in { [CHROMA_COLLECTION_NAME |-> n] : n \in CollectionNames }
  /\ disk = [fn \in Filenames |-> NONE]
  /\ dbDocs = <<>>
  /\ dbChunks = <<>>
  /\ docSeq = 1
  /\ chunkSeq = 1
  /\ session = ClosedSession
  /\ up = IdleUpload
  /\ chroma = [n \in CollectionNames |-> {}]
  /\ vsInstance = NONE
  /\ nUploads = 0
  /\ last = NoOutcome
  /\ stored = [fn \in Filenames |-> NONE]
  /\ callers = [t \in Threads |-> IdleCaller]

\* ------------------------------------------------------- get_vector_service
\* `_vector_service_instance is None or
\*  _vector_service_instance.collection_name != collection_name`
StaleInstance(instance, collection_name) ==
  instance = NONE \/ instance[1].collection_name # collection_name

\* get_vector_service(collection_name); initOk = VectorService.__init__
\* returns. [exc, instance].
GetVectorService(instance, collection_name, initOk) ==
  IF StaleInstance(instance, collection_name)
  THEN IF initOk
       THEN [exc |-> NONE, instance |-> Some([collection_name |-> collection_name])]
       ELSE [exc |-> Some(WrapEngineError(RawException("Exception", "engine"),
                                          "Error initializing VectorService")),
             instance |-> instance]
  ELSE [exc |-> NONE, instance |-> instance]

\* ---------------------------------------------------------- upload_document
\* An except chain that lets a database error through unwrapped.
UploadExceptRaw(e) ==
  IF e.type = "HTTPException"
  THEN [exc |-> e, cleanup |-> FALSE, rollback |-> FALSE]
  ELSE IF e.type = "OSError"
  THEN [exc |-> HandleException(e, "Error saving or reading file"),
        cleanup |-> TRUE, rollback |-> FALSE]
  ELSE IF e.type = "ValueError"
  THEN [exc |-> HTTPException(400, e.detail), cleanup |-> TRUE, rollback |-> FALSE]
  ELSE [exc |-> e, cleanup |-> TRUE, rollback |-> TRUE]

\* The except clauses of upload_document applied to the exception e raised
\* in its try block: the exception that leaves upload_document, whether the
\* saved file is removed, whether the session is rolled back.
UploadExcept(e) ==
  IF e.type = "HTTPException"
  THEN [exc |-> e, cleanup |-> FALSE, rollback |-> FALSE]
  ELSE IF e.type = "OSError"
  THEN [exc |-> HandleException(e, "Error saving or reading file"),
        cleanup |-> TRUE, rollback |-> FALSE]
  ELSE IF e.type = "ValueError"
  THEN [exc |-> HTTPException(400, e.detail), cleanup |-> TRUE, rollback |-> FALSE]
  ELSE IF e.type = "SQLAlchemyError"
  THEN [exc |-> HandleDatabaseException(e, "Error saving document to database"),
        cleanup |-> TRUE, rollback |-> TRUE]
  ELSE [exc |-> HandleException(e, "Unexpected error processing document"),
        cleanup |-> TRUE, rollback |-> FALSE]

\* `if file_location and os.path.exists(file_location): os.remove(file_location)`
\* (os.remove of the file just written is taken to succeed).
Cleanup(d, file_location) ==
  IF file_location # NONE /\ d[file_location[1]] # NONE
  THEN [d EXCEPT ![file_location[1]] = NONE]
  ELSE d

\* The id of the Document object of the upload in flight, once flushed.
FlushedId == IF up.document = NONE THEN NONE ELSE Some(up.document[1].id)

\* The ids of the Chunk objects of the upload in flight (None until the
\* commit's flush).
ChunkIds(chunks) == [i \in 1..Len(chunks) |-> chunks[i].id]

\* upload_document ends by raising: exception e was raised at `stage` with
\* the disk as d; the except clauses run and the request's session is closed.
UploadFails(stage, e, d, vector_exc) ==
  LET h == UploadExcept(e)
  IN /\ disk' = IF h.cleanup THEN Cleanup(d, up.file_location) ELSE d
     /\ session' = CloseSession(session)
     /\ up' = IdleUpload
     /\ last' = [op |-> "upload", stage |-> stage,
                 filename |-> FilenameOf(up.file[1]),
                 file_location |-> up.file_location,
                 document_id |-> FlushedId, chunk_ids |-> ChunkIds(up.chunks),
                 raised |-> Some(e), exc |-> Some(h.exc),
                 vector_exc |-> vector_exc, result |-> NONE]

\* POST /upload: validate_document_file, then get_db opens the session and
\* upload_document starts.
StartUpload(f) ==
  /\ last = NoOutcome
  /\ UNCHANGED << stored, callers >>
  /\ up.pc = "idle"
  /\ nUploads < MaxUploads
  /\ nUploads' = nUploads + 1
  /\ LET v == ValidateDocumentFile(f)
     IN IF v # NONE
        THEN /\ last' = [op |-> "upload", stage |-> "validate",
                         filename |-> FilenameOf(f), file_location |-> NONE,
                         document_id |-> NONE, chunk_ids |-> <<>>,
                         raised |-> v, exc |-> v,
                         vector_exc |-> NONE, result |-> NONE]
             /\ UNCHANGED << up, session >>
        ELSE /\ up' = [IdleUpload EXCEPT !.pc = "save", !.file = Some(f)]
             /\ session' = OpenSession(session)
             /\ last' = NoOutcome
  /\ UNCHANGED << settings, disk, dbDocs, dbChunks, docSeq, chunkSeq, chroma,
                  vsInstance >>

\* _ensure_upload_directory_exists and _save_file.
SaveFile ==
  /\ last = NoOutcome
  /\ UNCHANGED << stored, callers >>
  /\ up.pc = "save"
  /\ LET f == up.file[1]
         fn == FilenameOf(f)
     IN \/ /\ disk' = [disk EXCEPT ![fn] = Some([bytes |-> f.bytes, pdf |-> f.pdf])]
           /\ up' = [up EXCEPT !.pc = "extract", !.file_location = Some(fn)]
           /\ last' = NoOutcome
           /\ UNCHANGED session
        \/ \E t \in {"OSError", "Exception"} :
             UploadFails("save", RawException(t, "before open"), disk, NONE)
        \/ UploadFails("save", RawException("OSError", "write"),
                       [disk EXCEPT ![fn] = Some(TruncatedFile)], NONE)
  /\ UNCHANGED << settings, dbDocs, dbChunks, docSeq, chunkSeq, chroma,
                  vsInstance, nUploads >>

\* _extract_text_from_file(file_location).
ExtractText ==
  /\ last = NoOutcome
  /\ UNCHANGED << stored, callers >>
  /\ up.pc = "extract"
  /\ LET fn == up.file_location[1]
         r == ExtractTextFromFile(fn.ext, disk[fn][1])
     IN \/ /\ r.exc = NONE
           /\ up' = [up EXCEPT !.pc = "create", !.text = r.text]
           /\ last' = NoOutcome
           /\ UNCHANGED << disk, session >>
        \/ /\ r.exc # NONE
           /\ UploadFails("extract", r.exc[1], disk, NONE)
        \/ /\ fn.ext = ".txt"
           /\ UploadFails("extract", RawException("OSError", "read"), disk, NONE)
  /\ UNCHANGED << settings, dbDocs, dbChunks, docSeq, chunkSeq, chroma,
                  vsInstance, nUploads >>

\* _create_document_with_chunks, lines 218-237: db.add(document), db.flush(),
\* then one db.add(chunk) per chunk text. The flush draws the document id.
CreateDocument ==
  /\ last = NoOutcome
  /\ UNCHANGED << stored, callers >>
  /\ up.pc = "create"
  /\ \/ /\ LET document == [id |-> docSeq, filename |-> FilenameOf(up.file[1]),
                            content |-> up.text]
               texts == ChunkText(up.text)
           IN up' = [up EXCEPT !.pc = "commit",
                                !.document = Some(document),
                                !.chunks = [i \in 1..Len(texts) |->
                                              [id |-> NONE, document_id |-> document.id,
                                               text |-> texts[i]]]]
        /\ docSeq' = docSeq + 1
        /\ session' = [session EXCEPT !.in_transaction = TRUE]
        /\ last' = NoOutcome
        /\ UNCHANGED disk
     \/ /\ UploadFails("create", RawException("SQLAlchemyError", "flush"), disk, NONE)
        /\ UNCHANGED docSeq
  /\ UNCHANGED << settings, dbDocs, dbChunks, chunkSeq, chroma, vsInstance, nUploads >>

\* The Chunk objects of the upload in flight with the ids the commit's flush
\* draws from the sequence, in the order they were added.
WithIds(chunks, first) ==
  [i \in 1..Len(chunks) |-> [chunks[i] EXCEPT !.id = Some(first + i - 1)]]

\* The row a committed Chunk object is stored as.
ChunkRow(chunk) ==
  [id |-> chunk.id[1], document_id |-> chunk.document_id, text |-> chunk.text]

\* _create_document_with_chunks, lines 239-241: db.commit(), db.refresh(document).
Commit ==
  /\ last = NoOutcome
  /\ UNCHANGED << stored, callers >>
  /\ up.pc = "commit"
  /\ LET n == Len(up.chunks)
         chunks == WithIds(up.chunks, chunkSeq)
     IN \/ /\ dbDocs' = Append(dbDocs, up.document[1])
           /\ dbChunks' = dbChunks \o [i \in 1..n |-> ChunkRow(chunks[i])]
           /\ chunkSeq' = chunkSeq + n
           /\ \/ /\ up' = [up EXCEPT !.pc = "embed", !.chunks = chunks]
                 /\ session' = [session EXCEPT !.in_transaction = FALSE]
                 /\ last' = NoOutcome
                 /\ UNCHANGED disk
              \/ UploadFails("refresh", RawException("SQLAlchemyError", "refresh"),
                             disk, NONE)
        \/ /\ UploadFails("commit", RawException("SQLAlchemyError", "commit"), disk, NONE)
           /\ UNCHANGED chunkSeq
           /\ UNCHANGED << dbDocs, dbChunks >>
  /\ UNCHANGED << settings, docSeq, chroma, vsInstance, nUploads >>

\* A handler that logs the indexing failure and lets the upload return.
AfterEmbeddingsSwallow(embed_exc) == NONE

\* _create_document_with_chunks, lines 244-250: the exception that leaves it
\* when _save_chunks_embeddings raised embed_exc (NONE: it returned).
\* _handle_exception always raises, so the rollback after it never runs.
AfterEmbeddings(embed_exc) ==
  IF embed_exc = NONE THEN NONE
  ELSE Some(HandleException(embed_exc[1], "Error saving embeddings to ChromaDB"))

\* A chunks_data list built from the last chunk to the first.
ChunksDataReversed(chunks) ==
  [i \in 1..Len(chunks) |->
     [id |-> chunks[Len(chunks) + 1 - i].id[1],
      text |-> chunks[Len(chunks) + 1 - i].text]]

\* `[{"id": chunk.id, "text": chunk.text} for chunk in chunks]`
ChunksData(chunks) ==
  [i \in 1..Len(chunks) |-> [id |-> chunks[i].id[1], text |-> chunks[i].text]]

\* _save_chunks_embeddings and the return of upload_document.
SaveChunksEmbeddings ==
  /\ last = NoOutcome
  /\ UNCHANGED callers
  /\ up.pc = "embed"
  /\ \E initOk \in BOOLEAN, engineOk \in BOOLEAN :
       LET document == up.document[1]
           name == settings.CHROMA_COLLECTION_NAME
           gv == GetVectorService(vsInstance, name, initOk)
           added == AddChunks(chroma[name], ChunksData(up.chunks), document.id, engineOk)
           embed_exc == IF gv.exc # NONE THEN gv.exc ELSE added.exc
           out == AfterEmbeddings(embed_exc)
       IN /\ vsInstance' = gv.instance
          /\ chroma' = IF gv.exc # NONE THEN chroma
                       ELSE [chroma EXCEPT ![name] = added.coll]
          /\ IF out = NONE
             THEN /\ last' = [op |-> "upload", stage |-> "done",
                              filename |-> document.filename,
                              file_location |-> up.file_location,
                              document_id |-> Some(document.id),
                              chunk_ids |-> ChunkIds(up.chunks),
                              raised |-> NONE, exc |-> NONE,
                              vector_exc |-> embed_exc,
                              result |-> Some([message |-> "uploaded successfully",
                                               document_id |-> document.id,
                                               filename |-> document.filename,
                                               chunks |-> Len(up.chunks)])]
                  /\ up' = IdleUpload
                  /\ session' = CloseSession(session)
                  /\ stored' = [stored EXCEPT ![document.filename] =
                                                 disk[document.filename]]
                  /\ UNCHANGED disk
             ELSE /\ UploadFails("embed", out[1], disk, embed_exc)
                  /\ UNCHANGED stored
  /\ UNCHANGED << settings, dbDocs, dbChunks, docSeq, chunkSeq, nUploads >>

\* ------------------------------------------------------ search_and_generate
\* RAGQueryRequest values: every query text with every document_id filter.
Requests == { [query |-> q, document_id |-> d] : q \in Queries, d \in DocumentIdFilters }

\* `except HTTPException: raise` / `except Exception as e: raise HTTPException(500, ...)`
\* of search_and_generate: the exception that leaves it.
SearchExcept(e) ==
  IF e.type = "HTTPException" THEN e ELSE HTTPException(500, "Error in RAG search")

\* The outcome of a search request that ended by raising exc.
SearchFailed(req, exc, vector_exc, similar_chunks, prompt, llm_raised) ==
  [op |-> "search", request |-> req, results |-> NONE,
   similar_chunks |-> similar_chunks, prompt |-> prompt,
   llm_calls |-> IF prompt = NONE THEN 0 ELSE 1, llm_raised |-> llm_raised,
   exc |-> Some(exc), vector_exc |-> vector_exc, result |-> NONE]

\* get_rag_service (RAGService.__init__ calls get_vector_service() with its
\* default collection name "documents"), then search_and_generate(request).
SearchAndGenerate(req) ==
  /\ last = NoOutcome
  /\ UNCHANGED << stored, callers >>
  /\ \E initOk \in BOOLEAN :
       LET gv == GetVectorService(vsInstance, "documents", initOk)
           coll == chroma[gv.instance[1].collection_name]
           where == WhereOf(FilterMetadata(req.document_id))
       IN /\ vsInstance' = gv.instance
          /\ \/ /\ gv.exc # NONE
                /\ last' = SearchFailed(req, gv.exc[1], gv.exc, NONE, NONE, NONE)
             \/ /\ gv.exc = NONE
                /\ LET e == WrapEngineError(RawException("Exception", "engine"),
                                            "Error searching for similar chunks")
                   IN last' = SearchFailed(req, SearchExcept(e), Some(e), NONE, NONE, NONE)
             \/ /\ gv.exc = NONE
                /\ \E withDistances \in BOOLEAN, llmOk \in BOOLEAN :
                     LET dist == [e \in Matching(coll, where) |->
                                    EngineDistance(req.query, e)]
                         results == CollectionQuery(coll, where, RAG_N_RESULTS,
                                                    dist, withDistances)
                         similar_chunks == FormatResults(results)
                         context == BuildContext(similar_chunks)
                         prompt == BuildPrompt(req.query, context)
                     IN last' =
                          IF llmOk
                          THEN [op |-> "search", request |-> req,
                                results |-> Some(results),
                                similar_chunks |-> Some(similar_chunks),
                                prompt |-> Some(prompt), llm_calls |-> 1,
                                llm_raised |-> NONE, exc |-> NONE, vector_exc |-> NONE,
                                result |-> Some(RAGQueryResponse(req.query,
                                                  similar_chunks, context, "answer"))]
                          ELSE [SearchFailed(req,
                                   SearchExcept(RawException("Exception", "llm")),
                                   NONE, Some(similar_chunks), Some(prompt),
                                   Some(RawException("Exception", "llm")))
                                EXCEPT !.results = Some(results)]
  /\ UNCHANGED << settings, disk, dbDocs, dbChunks, docSeq, chunkSeq, session,
                  up, chroma, nUploads >>

\* --------------------------------------------------- delete_document_chunks
\* A lookup that ignores the `where` filter.
CollectionGetAll(coll, document_id) == { e.id : e \in coll }

\* `self.collection.get(where={"document_id": document_id})['ids']`
CollectionGet(coll, document_id) ==
  { e.id : e \in { o \in coll : o.metadata.document_id = document_id } }

\* `self.collection.delete(ids=ids)`
CollectionDelete(coll, ids) == { e \in coll : e.id \notin ids }

\* The collection delete_document_chunks(document_id) leaves when the engine
\* answers both calls.
DeletedFrom(coll, document_id) ==
  LET ids == CollectionGet(coll, document_id)
  IN IF ids # {} THEN CollectionDelete(coll, ids) ELSE coll

\* VectorService.delete_document_chunks(document_id) on the cached instance.
DeleteDocumentChunks(document_id) ==
  /\ last = NoOutcome
  /\ UNCHANGED << stored, callers >>
  /\ vsInstance # NONE
  /\ LET name == vsInstance[1].collection_name
         coll == chroma[name]
         ids == CollectionGet(coll, document_id)
         failed == Some(WrapEngineError(RawException("Exception", "engine"),
                                        "Error deleting document chunks"))
     IN \/ /\ last' = [op |-> "delete", document_id |-> document_id,
                       delete_issued |-> FALSE, exc |-> failed]
           /\ UNCHANGED chroma
        \/ /\ ids = {}
           /\ last' = [op |-> "delete", document_id |-> document_id,
                       delete_issued |-> FALSE, exc |-> NONE]
           /\ UNCHANGED chroma
        \/ /\ ids # {}
           /\ \/ /\ chroma' = [chroma EXCEPT ![name] = CollectionDelete(coll, ids)]
                 /\ last' = [op |-> "delete", document_id |-> document_id,
                             delete_issued |-> TRUE, exc |-> NONE]
              \/ /\ last' = [op |-> "delete", document_id |-> document_id,
                             delete_issued |-> TRUE, exc |-> failed]
                 /\ UNCHANGED chroma
  /\ UNCHANGED << settings, disk, dbDocs, dbChunks, docSeq, chunkSeq, session,
                  up, vsInstance, nUploads >>

\* ------------------------------------------------------ get_collection_info
\* VectorService.get_collection_info() on the cached instance.
GetCollectionInfo ==
  /\ last = NoOutcome
  /\ UNCHANGED << stored, callers >>
  /\ vsInstance # NONE
  /\ LET name == vsInstance[1].collection_name
     IN \/ last' = [op |-> "info", exc |-> NONE,
                    result |-> Some([collection_name |-> name,
                                     total_chunks |-> Cardinality(chroma[name]),
                                     embedding_model |-> "text-embedding-3-small"])]
        \/ last' = [op |-> "info",
                    exc |-> Some(WrapEngineError(RawException("Exception", "engine"),
                                                 "Error getting collection information")),
                    result |-> NONE]
  /\ UNCHANGED << settings, disk, dbDocs, dbChunks, docSeq, chunkSeq, session,
                  up, chroma, vsInstance, nUploads >>

\* ------------------------------------------------------------------ caller
\* The caller takes the result or the exception of the operation that just
\* ended; `last` shows an outcome in exactly the state the operation ends in.
Respond ==
  /\ last # NoOutcome
  /\ UNCHANGED << stored, callers >>
  /\ last' = NoOutcome
  /\ UNCHANGED << settings, disk, dbDocs, dbChunks, docSeq, chunkSeq, session,
                  up, chroma, vsInstance, nUploads >>

\* ------------------------------------------------------------ specification
Next ==
  \/ \E f \in UploadFiles : StartUpload(f)
  \/ SaveFile
  \/ ExtractText
  \/ CreateDocument
  \/ Commit
  \/ SaveChunksEmbeddings
  \/ \E req \in Requests : SearchAndGenerate(req)
  \/ \E d \in 1..MaxUploads : DeleteDocumentChunks(d)
  \/ GetCollectionInfo
  \/ Respond

Spec == Init /\ [][Next]_vars

\* ------------------------------------- get_vector_service, statement by statement
\* Callers of get_vector_service run on worker threads (get_rag_service is a
\* synchronous dependency) and the function holds no lock, so a thread switch
\* can fall between any two of its statements. Each thread makes one call; a
\* VectorService object is identified by the thread that constructed it.
Frame ==
  << settings, disk, dbDocs, dbChunks, docSeq, chunkSeq, session, up, chroma,
     nUploads, last, stored >>

\* A thread enters get_vector_service(collection_name).
Call(t, collection_name) ==
  /\ callers[t].pc = "idle"
  /\ callers' = [callers EXCEPT ![t].pc = "test",
                                ![t].collection_name = collection_name]
  /\ UNCHANGED << vsInstance, Frame >>

\* Line 248: the `if` reads the global and decides.
Test(t) ==
  /\ callers[t].pc = "test"
  /\ callers' = [callers EXCEPT ![t].pc =
                    IF StaleInstance(vsInstance, callers[t].collection_name)
                    THEN "construct" ELSE "return"]
  /\ UNCHANGED << vsInstance, Frame >>

\* Line 249, right-hand side: VectorService(collection_name=collection_name)
\* returns a new object, or _initialize_clients raises HTTPException(500).
Construct(t) ==
  /\ callers[t].pc = "construct"
  /\ \/ callers' = [callers EXCEPT
                      ![t].pc = "assign",
                      ![t].made = Some([collection_name |-> callers[t].collection_name,
                                        by |-> t])]
     \/ callers' = [callers EXCEPT
                      ![t].pc = "done",
                      ![t].exc = Some(WrapEngineError(RawException("Exception", "engine"),
                                                      "Error initializing VectorService"))]
  /\ UNCHANGED << vsInstance, Frame >>

\* Line 249, the store to the global.
Assign(t) ==
  /\ callers[t].pc = "assign"
  /\ vsInstance' = callers[t].made
  /\ callers' = [callers EXCEPT ![t].pc = "return"]
  /\ UNCHANGED Frame

\* Line 251: `return _vector_service_instance` reads the global again.
Return(t) ==
  /\ callers[t].pc = "return"
  /\ callers' = [callers EXCEPT ![t].pc = "done", ![t].result = vsInstance]
  /\ UNCHANGED << vsInstance, Frame >>

ConcurrentNext ==
  \/ \E t \in Threads, n \in CollectionNames : Call(t, n)
  \/ \E t \in Threads : Test(t)
  \/ \E t \in Threads : Construct(t)
  \/ \E t \in Threads : Assign(t)
  \/ \E t \in Threads : Return(t)

ConcurrentSpec == Init /\ [][ConcurrentNext]_vars

\* =================================================================== claims
\* Rows of table chunks that belong to document id d, in id order.
ChunkRowsOf(d) == SelectSeq(dbChunks, LAMBDA r : r.document_id = d)

\* No committed Document row has id d and no committed Chunk row refers to it.
NoRowsOf(d) ==
  /\ \A i \in 1..Len(dbDocs) : dbDocs[i].id # d
  /\ ChunkRowsOf(d) = <<>>

\* An upload request ended in the last step.
UploadEnded == last.op = "upload"

\* A search request ended in the last step.
SearchEnded == last.op = "search"

C2_EmptyPdfLeavesNothing ==
  (/\ UploadEnded
   /\ last.raised # NONE
   /\ last.raised[1].detail = "PDF file appears to be empty or contains no extractable text") =>
     /\ last.exc = last.raised
     /\ last.result = NONE
     /\ last.document_id = NONE
     /\ \A i \in 1..Len(dbDocs) : dbDocs[i].filename # last.filename
     /\ disk[last.filename] = NONE

\* ------------------------------------------------------------------------ C3
\* C3: an upload that fails while saving, extracting or in the relational
\* transaction (add, flush, commit) leaves no committed Document or Chunk row
\* of that upload, and the file it saved is no longer on disk.
C3_FailureLeavesNothing ==
  (UploadEnded /\ last.stage \in {"save", "extract", "create", "commit"}) =>
     /\ last.document_id # NONE => NoRowsOf(last.document_id[1])
     /\ last.file_location # NONE => disk[last.file_location[1]] = NONE

\* ------------------------------------------------------------------------ C4
\* C4: for every committed document, its Chunk rows in creation order
\* concatenate to the document's text, there are ceil(L / CHUNK_SIZE) of them,
\* every one but the last has CHUNK_SIZE characters and the last has between
\* 1 and CHUNK_SIZE.
C4_ChunksPartitionText ==
  \A d \in 1..Len(dbDocs) :
    LET text == dbDocs[d].content
        rows == ChunkRowsOf(dbDocs[d].id)
        n == Len(rows)
    IN /\ Concat([i \in 1..n |-> rows[i].text]) = text
       /\ n = (Len(text) + CHUNK_SIZE - 1) \div CHUNK_SIZE
       /\ \A i \in 1..n : i < n => Len(rows[i].text) = CHUNK_SIZE
       /\ n > 0 => Len(rows[n].text) \in 1..CHUNK_SIZE

\* A committed document of 1200 characters with chunks of 500, 500 and 200,
\* and a committed document with no text.
C4_Witness ==
  /\ \E d \in 1..Len(dbDocs) :
       /\ Len(dbDocs[d].content) = 1200
       /\ LET rows == ChunkRowsOf(dbDocs[d].id)
          IN /\ Len(rows) = 3
             /\ Len(rows[3].text) = 200
  /\ \E d \in 1..Len(dbDocs) : dbDocs[d].content = <<>>

\* ------------------------------------------------------------------------ C5
\* C5: when an upload returns its result, the configured collection holds,
\* for each Chunk row of the document, exactly one entry with id
\* "chunk_<chunk id>", whose metadata carries that chunk id and the document
\* id; the reported chunk count is the number of the document's Chunk rows
\* and the number of the document's entries.
C5_SuccessIndexesEveryChunk ==
  (UploadEnded /\ last.result # NONE) =>
     LET d == last.result[1].document_id
         rows == ChunkRowsOf(d)
         coll == chroma[settings.CHROMA_COLLECTION_NAME]
     IN /\ \A i \in 1..Len(rows) :
             LET hits == { e \in coll : e.id = ChunkKey(rows[i].id) }
             IN /\ Cardinality(hits) = 1
                /\ \A e \in hits : /\ e.metadata.chunk_id = rows[i].id
                                   /\ e.metadata.document_id = d
        /\ last.result[1].chunks = Len(rows)
        /\ last.result[1].chunks =
             Cardinality({ e \in coll : e.metadata.document_id = d })

\* A second upload returned a result for a document of three chunks.
C5_Witness ==
  /\ UploadEnded
  /\ last.result # NONE
  /\ last.result[1].chunks = 3
  /\ last.result[1].document_id = 2

\* ------------------------------------------------------------------------ C6
\* C6: a search whose request gives a document id filter d (0 included)
\* returns only chunks whose document_id is d.
C6_FilterReturnsOnlyThatDocument ==
  (SearchEnded /\ last.result # NONE /\ last.request.document_id # NONE) =>
     \A i \in 1..Len(last.result[1].chunks) :
        last.result[1].chunks[i].document_id = last.request.document_id[1]

\* ------------------------------------------------------------------------ C7
\* C7: for every match of the engine, the score is 1 - distance when the
\* engine gave a distance (a distance of 0 included) and null only when it
\* gave none.
C7_ScoreIsOneMinusDistance ==
  (SearchEnded /\ last.similar_chunks # NONE) =>
     \A i \in 1..Len(last.similar_chunks[1]) :
        LET distance == DistanceAt(last.results[1], i)
            score == last.similar_chunks[1][i].score
        IN IF distance # NONE THEN score = Some(One - distance[1])
           ELSE score = NONE

\* ------------------------------------------------------------------------ C8
\* The place of a returned chunk in the engine's ranking.
EnginePlace(results, chunk) ==
  CHOOSE k \in 1..Len(results.ids) : results.ids[k] = ChunkKey(chunk.chunk_id)

\* C8: the engine ranking by non-decreasing distance, the list of
\* search_similar_chunks is in descending score order (a chunk with a score
\* is followed only by chunks with a score that is not greater), and the
\* chunks without a score are in the engine's order.
C8_DescendingScores ==
  (SearchEnded /\ last.similar_chunks # NONE) =>
     LET chunks == last.similar_chunks[1]
         results == last.results[1]
     IN \A i \in 1..Len(chunks), j \in 1..Len(chunks) :
          i < j =>
            /\ chunks[i].score # NONE =>
                 /\ chunks[j].score # NONE
                 /\ chunks[i].score[1] >= chunks[j].score[1]
            /\ (chunks[i].score = NONE /\ chunks[j].score = NONE) =>
                 EnginePlace(results, chunks[i]) < EnginePlace(results, chunks[j])

\* A result of five chunks: two without a score (distance 0) ahead of chunks
\* with two different scores.
C8_Witness ==
  /\ SearchEnded
  /\ last.similar_chunks # NONE
  /\ LET chunks == last.similar_chunks[1]
     IN /\ Len(chunks) = RAG_N_RESULTS
        /\ last.results[1].distances # NONE
        /\ chunks[1].score = NONE
        /\ chunks[2].score = NONE
        /\ chunks[3].score # NONE
        /\ chunks[5].score # NONE
        /\ chunks[3].score[1] > chunks[5].score[1]

\* ------------------------------------------------------------------------ C9
\* The context between the fixed head and the three closing tokens of a prompt.
ContextOf(prompt) == SubSeq(prompt, 2, Len(prompt) - 3)

\* C9: when the vector search returns, the language model is invoked once,
\* with a prompt around the context. With no chunk found the context is the
\* fixed sentence, the request does not fail unless the language model does,
\* and the answer has chunks_found 0, no chunk and context_used null; with
\* chunks found, context_used is the context of the prompt and chunks_found
\* is the length of the chunk list.
C9_EmptySearchAnswers ==
  (SearchEnded /\ last.similar_chunks # NONE) =>
     /\ last.llm_calls = 1
     /\ last.prompt # NONE
     /\ last.llm_raised = NONE => (last.exc = NONE /\ last.result # NONE)
     /\ last.similar_chunks[1] = <<>> =>
          /\ ContextOf(last.prompt[1]) = << Lit("No relevant information found.") >>
          /\ last.result # NONE =>
               /\ last.result[1].chunks_found = 0
               /\ last.result[1].chunks = <<>>
               /\ last.result[1].context_used = NONE
     /\ (last.similar_chunks[1] # <<>> /\ last.result # NONE) =>
          /\ last.result[1].context_used = Some(ContextOf(last.prompt[1]))
          /\ last.result[1].chunks_found = Len(last.result[1].chunks)
          /\ last.result[1].chunks_found = Len(last.similar_chunks[1])

\* A search of an empty collection that answered.
C9_Witness ==
  /\ SearchEnded
  /\ last.similar_chunks = Some(<<>>)
  /\ last.result # NONE
  /\ last.result[1].context_used = NONE
  /\ chroma["documents"] = {}

C11_DeleteRemovesExactlyTheDocument ==
  [][ (last'.op = "delete" /\ last'.exc = NONE) =>
        LET d == last'.document_id
            name == vsInstance[1].collection_name
        IN /\ chroma'[name] = { e \in chroma[name] : e.metadata.document_id # d }
           /\ \A n \in CollectionNames \ {name} : chroma'[n] = chroma[n]
           /\ (\A e \in chroma[name] : e.metadata.document_id # d) =>
                (~last'.delete_issued /\ chroma' = chroma)
           /\ DeletedFrom(chroma'[name], d) = chroma'[name]
           /\ DeletedFrom(DeletedFrom(chroma[name], d), d) = DeletedFrom(chroma[name], d)
           /\ chroma'[name] = DeletedFrom(chroma[name], d) ]_vars

\* A delete that was issued and returned while the collection holds entries
\* of another document.
C11_Witness ==
  /\ last.op = "delete"
  /\ last.exc = NONE
  /\ last.delete_issued
  /\ vsInstance # NONE
  /\ \E e \in chroma[vsInstance[1].collection_name] :
       e.metadata.document_id # last.document_id
  /\ \A e \in chroma[vsInstance[1].collection_name] :
       e.metadata.document_id # last.document_id

\* ----------------------------------------------------------------------- C12
\* The entry of the index is the committed Chunk row with the same chunk id.
CommittedEntry(e) ==
  \E j \in 1..Len(dbChunks) :
     /\ dbChunks[j].id = e.metadata.chunk_id
     /\ dbChunks[j].document_id = e.metadata.document_id
     /\ dbChunks[j].text = e.document
     /\ \E i \in 1..Len(dbDocs) : dbDocs[i].id = e.metadata.document_id

\* The list _save_chunks_embeddings hands to add_chunks names the committed
\* Chunk rows of the document, in the order the rows were created.
PushedInRowOrder ==
  up.pc = "embed" =>
    LET rows == ChunkRowsOf(up.document[1].id)
        data == ChunksData(up.chunks)
    IN /\ Len(data) = Len(rows)
       /\ \A i \in 1..Len(rows) :
            /\ data[i].id = rows[i].id
            /\ data[i].text = rows[i].text
            /\ i > 1 => rows[i - 1].id < rows[i].id
       /\ Concat([i \in 1..Len(data) |-> data[i].text]) = up.document[1].content

\* C12: the chunks of a document are written to the vector index only after
\* the commit of the document and its chunks has succeeded (every entry a
\* step adds is a row that was committed before the step); in every
\* reachable state every index entry is a committed Chunk row; and the chunks
\* are pushed in the order in which their rows were created.
C12_IndexFollowsCommit ==
  /\ [](\A n \in CollectionNames : \A e \in chroma[n] : CommittedEntry(e))
  /\ []PushedInRowOrder
  /\ [][ \A n \in CollectionNames : \A e \in chroma'[n] \ chroma[n] :
           /\ CommittedEntry(e)
           /\ up.pc = "embed"
           /\ e.metadata.document_id = up.document[1].id ]_vars

\* The three chunks of a committed document were pushed to the index while
\* the chunks of an earlier document are in it.
C12_Witness ==
  /\ UploadEnded
  /\ last.stage = "done"
  /\ Len(last.chunk_ids) = 3
  /\ \A k \in 1..3 :
       \E e \in chroma[settings.CHROMA_COLLECTION_NAME] :
          /\ e.id = ChunkKey(last.chunk_ids[k][1])
          /\ CommittedEntry(e)
  /\ \E e \in chroma[settings.CHROMA_COLLECTION_NAME] :
       e.metadata.document_id # last.document_id[1]

\* ----------------------------------------------------------------------- C13
\* The VectorService objects constructed so far.
Constructed == { callers[t].made[1] : t \in { u \in Threads : callers[u].made # NONE } }

\* A call made when no other thread is inside get_vector_service and an
\* instance of the requested name is cached constructs nothing.
SequentialReuse ==
  \A t \in Threads :
    ( /\ callers[t].pc = "test"
      /\ ~StaleInstance(vsInstance, callers[t].collection_name) )
    => callers'[t].pc \in {"test", "return"}

\* C13: while every call of get_vector_service names the same collection, at
\* most one VectorService object is constructed and every caller that got a
\* result got that one object, whatever the interleaving of the calls; and a
\* call that finds a cached instance of its name constructs nothing.
C13_ConstructionIsSerialized ==
  /\ [](\A n \in CollectionNames :
          (\A t \in Threads : callers[t].collection_name \in {"", n}) =>
             /\ Cardinality(Constructed) <= 1
             /\ \A t, u \in Threads :
                  (callers[t].result # NONE /\ callers[u].result # NONE)
                     => callers[t].result = callers[u].result)
  /\ [][SequentialReuse]_vars

\* ----------------------------------------------------------------------- C14
\* C14: the upload request in flight has an open session; once a request
\* has ended (with a result, with a failure of saving, extraction or the
\* database transaction, or with a failure of indexing after the commit) its
\* session is closed and no session is open; and every request that reaches
\* upload_document gets a session object that no earlier request had.
C14_SessionPerRequestAlwaysClosed ==
  /\ [](up.pc = "idle" => ~session.open)
  /\ [](up.pc # "idle" => session.open)
  /\ [](UploadEnded => ~session.open /\ ~session.in_transaction)
  /\ [][ /\ (up.pc = "idle" /\ up'.pc # "idle") =>
              (session'.open /\ session'.id > session.id)
         /\ session'.id # session.id =>
              (up.pc = "idle" /\ up'.pc # "idle" /\ ~session.open)
         /\ (session.open /\ ~session'.open) => up'.pc = "idle" ]_vars

\* The second request's own session is closed after its indexing failed
\* post-commit.
C14_Witness ==
  /\ UploadEnded
  /\ last.stage = "embed"
  /\ last.exc # NONE
  /\ session.id = 2
  /\ ~session.open
  /\ \E i \in 1..Len(dbDocs) : dbDocs[i].id = last.document_id[1]

\* ----------------------------------------------------------------------- C15
\* C15: when an upload fails while saving, extracting or in the database
\* transaction, and an earlier upload of the same filename had succeeded,
\* the file of that name is still on disk with the content of the successful
\* upload.
C15_FailedUploadKeepsEarlierFile ==
  ( /\ UploadEnded
    /\ last.stage \in {"save", "extract", "create", "commit", "refresh"}
    /\ stored[last.filename] # NONE )
  => disk[last.filename] = stored[last.filename]

\* ----------------------------------------------------------------------- C16
\* C16: a search that returns has looked in the collection ingestion writes
\* to (every entry of the configured collection is in the collection of the
\* instance the search used), and no request replaces a cached instance.
C16_RetrievalReadsWhatIngestionWrote ==
  /\ [](( SearchEnded /\ last.result # NONE ) =>
          /\ vsInstance # NONE
          /\ \A e \in chroma[settings.CHROMA_COLLECTION_NAME] :
               e \in chroma[vsInstance[1].collection_name])
  /\ [][ vsInstance # NONE => vsInstance' = vsInstance ]_vars

\* ----------------------------------------------------------------------- C17
\* C17: an upload whose file validate_document_file accepted does not end
\* with the unsupported-file-type error of _extract_text_from_file.
C17_AcceptedFilesAreExtracted ==
  ( /\ UploadEnded
    /\ last.stage # "validate" )
  => ~( /\ last.raised # NONE
        /\ last.raised[1].type = "ValueError"
        /\ last.raised[1].detail = "Unsupported file type" )
====
